---- MODULE Spec2Model ----
(***************************************************************************)
(* A model of the xes crate (src/src/lib.rs and src/src/ontology): the     *)
(* parser from an XML node tree to the Log / Trace / Event / Attribute     *)
(* values, the serializer from those values to a flat sequence of XML      *)
(* start/end events, and the two entry points read and write.              *)
(*                                                                         *)
(* Texts whose characters the code inspects (attribute values, the         *)
(* features declaration) are sequences of one-character strings; keys,     *)
(* names and versions, which the code only copies, are plain strings.      *)
(***************************************************************************)
EXTENDS Integers, Sequences, FiniteSets, TLC

VARIABLES pc, stack, text, used, result, log, seed, events, reparsed, attribute

vars == <<pc, stack, text, used, result, log, seed, events, reparsed, attribute>>

\* ------------------------------------------------------------------------
\* Results of operations that may panic (unwrap on None / Err, panic!()).
\* ------------------------------------------------------------------------
Ok(v) == [ok |-> TRUE, val |-> v]

Panic(why) == [ok |-> FALSE, panic |-> why]

\* r.unwrap() followed by F on the value: the panic of r, or F's result
Then(r, F(_)) == IF r.ok THEN F(r.val) ELSE r

\* ------------------------------------------------------------------------
\* Sequence helpers
\* ------------------------------------------------------------------------
RECURSIVE Flatten(_)
Flatten(ss) == IF ss = <<>> THEN <<>> ELSE Head(ss) \o Flatten(Tail(ss))

RECURSIVE SeqToSet(_)
SeqToSet(s) == IF s = <<>> THEN {} ELSE {Head(s)} \cup SeqToSet(Tail(s))

\* ------------------------------------------------------------------------
\* Scalar lexical grammars (str::parse and to_string of the standard library)
\* ------------------------------------------------------------------------
Digits == {"0", "1", "2", "3", "4", "5", "6", "7", "8", "9"}

DigitVal ==
    "0" :> 0 @@ "1" :> 1 @@ "2" :> 2 @@ "3" :> 3 @@ "4" :> 4 @@
    "5" :> 5 @@ "6" :> 6 @@ "7" :> 7 @@ "8" :> 8 @@ "9" :> 9

AllDigits(s) == \A i \in 1..Len(s) : s[i] \in Digits

RECURSIVE StripZeros(_)
\* a digit string without its leading zeros ("" for zero)
StripZeros(s) ==
    IF s # <<>> /\ Head(s) = "0" THEN StripZeros(Tail(s)) ELSE s

RECURSIVE StripTrailingZeros(_)
StripTrailingZeros(s) ==
    IF s # <<>> /\ s[Len(s)] = "0"
    THEN StripTrailingZeros(SubSeq(s, 1, Len(s) - 1)) ELSE s

RECURSIVE DigitsLess(_, _)
\* a < b for digit strings of the same length
DigitsLess(a, b) ==
    IF a = <<>> THEN FALSE
    ELSE IF Head(a) # Head(b) THEN DigitVal[Head(a)] < DigitVal[Head(b)]
    ELSE DigitsLess(Tail(a), Tail(b))

\* magnitude a <= magnitude b, both without leading zeros
MagLeq(a, b) ==
    \/ Len(a) < Len(b)
    \/ Len(a) = Len(b) /\ (a = b \/ DigitsLess(a, b))

\* |i64::MIN| = 9223372036854775808, i64::MAX = 9223372036854775807
I64MinMag ==
    <<"9","2","2","3","3","7","2","0","3","6","8","5","4","7","7","5","8","0","8">>

I64MaxMag ==
    <<"9","2","2","3","3","7","2","0","3","6","8","5","4","7","7","5","8","0","7">>

\* An i64 is held as sign and decimal magnitude: TLC's integers are narrower.
I64(neg, mag) == [neg |-> neg /\ mag # <<>>, mag |-> mag]

\* <i64 as FromStr>::from_str: [+-]? digit+, within the range of i64
parse_i64(s) ==
    LET signed == s # <<>> /\ Head(s) \in {"+", "-"}
        neg    == s # <<>> /\ Head(s) = "-"
        body   == IF signed THEN Tail(s) ELSE s
        mag    == StripZeros(body)
    IN  IF s = <<>> THEN Panic("ParseIntError:Empty")
        ELSE IF body = <<>> \/ ~AllDigits(body)
             THEN Panic("ParseIntError:InvalidDigit")
        ELSE IF neg /\ ~MagLeq(mag, I64MinMag)
             THEN Panic("ParseIntError:NegOverflow")
        ELSE IF ~neg /\ ~MagLeq(mag, I64MaxMag)
             THEN Panic("ParseIntError:PosOverflow")
        ELSE Ok(I64(neg, mag))

\* <i64 as Display>::to_string
i64_to_string(n) ==
    (IF n.neg THEN <<"-">> ELSE <<>>) \o (IF n.mag = <<>> THEN <<"0">> ELSE n.mag)

\* <bool as FromStr>::from_str: exactly "true" or "false"
parse_bool(s) ==
    IF s = <<"t","r","u","e">> THEN Ok(TRUE)
    ELSE IF s = <<"f","a","l","s","e">> THEN Ok(FALSE)
    ELSE Panic("ParseBoolError")

\* <bool as Display>::to_string
bool_to_string(b) == IF b THEN <<"t","r","u","e">> ELSE <<"f","a","l","s","e">>

\* An f64 is held as the decimal it denotes: sign, integer digits and
\* fraction digits, or inf / NaN.  This is exact for literals of at most 15
\* significant digits within the range of f64, which is all that is used.
F64(neg, int, frac) ==
    [neg |-> neg, int |-> StripZeros(int), frac |-> StripTrailingZeros(frac)]

Lower(c) ==
    IF c = "I" THEN "i" ELSE IF c = "N" THEN "n" ELSE IF c = "F" THEN "f"
    ELSE IF c = "A" THEN "a" ELSE IF c = "T" THEN "t" ELSE IF c = "Y" THEN "y"
    ELSE c

RECURSIVE DigitsToInt(_, _)
\* the number a short digit string denotes, most significant digit first
DigitsToInt(s, acc) ==
    IF s = <<>> THEN acc ELSE DigitsToInt(Tail(s), 10 * acc + DigitVal[Head(s)])

Zeros(n) == [i \in 1..n |-> "0"]

\* index of the first character of s that is in cs, or 0
FirstOf(s, cs) ==
    IF \E i \in 1..Len(s) : s[i] \in cs
    THEN CHOOSE i \in 1..Len(s) : s[i] \in cs /\ \A j \in 1..(i - 1) : s[j] \notin cs
    ELSE 0

\* digits ds with the decimal point after the first p of them
Decimal(neg, ds, p) ==
    IF p <= 0 THEN F64(neg, <<>>, Zeros(0 - p) \o ds)
    ELSE IF p >= Len(ds) THEN F64(neg, ds \o Zeros(p - Len(ds)), <<>>)
    ELSE F64(neg, SubSeq(ds, 1, p), SubSeq(ds, p + 1, Len(ds)))

\* <f64 as FromStr>::from_str:
\* [+-]? (inf | infinity | nan | (digit+ | digit+ . digit* | digit* . digit+) exp?)
\* with exp = [eE] [+-]? digit+
parse_f64(s) ==
    LET signed == s # <<>> /\ Head(s) \in {"+", "-"}
        neg    == s # <<>> /\ Head(s) = "-"
        body   == IF signed THEN Tail(s) ELSE s
        low    == [i \in 1..Len(body) |-> Lower(body[i])]
        e      == FirstOf(body, {"e", "E"})
        num    == IF e = 0 THEN body ELSE SubSeq(body, 1, e - 1)
        ex     == IF e = 0 THEN <<>> ELSE SubSeq(body, e + 1, Len(body))
        exneg  == ex # <<>> /\ Head(ex) = "-"
        exmag  == IF ex # <<>> /\ Head(ex) \in {"+", "-"} THEN Tail(ex) ELSE ex
        dot    == FirstOf(num, {"."})
        int    == IF dot = 0 THEN num ELSE SubSeq(num, 1, dot - 1)
        frac   == IF dot = 0 THEN <<>> ELSE SubSeq(num, dot + 1, Len(num))
        shift  == IF exneg THEN 0 - DigitsToInt(exmag, 0) ELSE DigitsToInt(exmag, 0)
    IN  IF low \in {<<"i","n","f">>, <<"i","n","f","i","n","i","t","y">>}
        THEN Ok([neg |-> neg, special |-> "inf"])
        ELSE IF low = <<"n","a","n">> THEN Ok([neg |-> neg, special |-> "NaN"])
        ELSE IF /\ AllDigits(int) /\ AllDigits(frac) /\ int \o frac # <<>>
                /\ (e = 0 \/ (exmag # <<>> /\ AllDigits(exmag)))
             THEN Ok(Decimal(neg, int \o frac, Len(int) + shift))
        ELSE Panic("ParseFloatError")

\* <f64 as Display>::to_string
f64_to_string(x) ==
    IF "special" \in DOMAIN x
    THEN IF x.special = "NaN" THEN <<"N","a","N">>
         ELSE (IF x.neg THEN <<"-">> ELSE <<>>) \o <<"i","n","f">>
    ELSE (IF x.neg THEN <<"-">> ELSE <<>>)
         \o (IF x.int = <<>> THEN <<"0">> ELSE x.int)
         \o (IF x.frac = <<>> THEN <<>> ELSE <<".">> \o x.frac)

\* ------------------------------------------------------------------------
\* features: split(',') / trim / join(",")
\* ------------------------------------------------------------------------
\* char::is_whitespace on the characters used here
IsWhitespace(c) == c \in {" ", "\t", "\n"}

RECURSIVE trim_start(_)
trim_start(s) ==
    IF s # <<>> /\ IsWhitespace(Head(s)) THEN trim_start(Tail(s)) ELSE s

RECURSIVE trim_end(_)
trim_end(s) ==
    IF s # <<>> /\ IsWhitespace(s[Len(s)])
    THEN trim_end(SubSeq(s, 1, Len(s) - 1)) ELSE s

\* str::trim
trim(s) == trim_end(trim_start(s))

RECURSIVE split(_, _)
\* str::split(sep): always at least one token, the empty text gives <<"">>
split(s, sep) ==
    IF \E i \in 1..Len(s) : s[i] = sep
    THEN LET i == CHOOSE i \in 1..Len(s) :
                     s[i] = sep /\ \A j \in 1..(i - 1) : s[j] # sep
         IN  <<SubSeq(s, 1, i - 1)>> \o split(SubSeq(s, i + 1, Len(s)), sep)
    ELSE <<s>>

RECURSIVE join(_, _)
\* [String]::join(sep): the empty slice gives the empty text
join(tokens, sep) ==
    IF tokens = <<>> THEN <<>>
    ELSE IF Len(tokens) = 1 THEN tokens[1]
    ELSE tokens[1] \o <<sep>> \o join(Tail(tokens), sep)

\* lines 81-87 of parse_log: the features attribute to the features vector
parse_features(s) ==
    LET tokens == split(s, ",") IN [i \in 1..Len(tokens) |-> trim(tokens[i])]

\* ------------------------------------------------------------------------
\* The XML tree the parser walks (roxmltree::Node as the code uses it):
\* tag_name().name(), attribute(name) and children().  A node that is not an
\* element (text, comment) has the empty tag name.
\* ------------------------------------------------------------------------
Node(tag, attrs, children) == [tag |-> tag, attrs |-> attrs, children |-> children]

NoAttrs == [x \in {} |-> <<>>]

has_attribute(node, name) == name \in DOMAIN node.attrs

IsElement(node) == node.tag # ""

\* ------------------------------------------------------------------------
\* The domain tree (src/src/ontology)
\* ------------------------------------------------------------------------
EmptyMap == [k \in {} |-> <<>>]

\* insert with a fault: the first value under a key is kept
\* (entry(k).or_insert(v))
insert_keep_first(map, k, v) ==
    [x \in DOMAIN map \cup {k} |-> IF x \in DOMAIN map THEN map[x] ELSE v]

\* HashMap::insert: a later value replaces an earlier one under the same key
insert(map, k, v) == [x \in DOMAIN map \cup {k} |-> IF x = k THEN v ELSE map[x]]

AttrList(map) == [kind |-> "List", value |-> map]

AttrString(value) == [kind |-> "String", value |-> value]

AttrDateTime(value) == [kind |-> "DateTime", value |-> value]

AttrLong(value) == [kind |-> "Long", value |-> value]

AttrDouble(value) == [kind |-> "Double", value |-> value]

AttrBoolean(value) == [kind |-> "Boolean", value |-> value]

AttrID(value) == [kind |-> "ID", value |-> value]

Extension(name, prefix, uri) == [name |-> name, prefix |-> prefix, uri |-> uri]

Event(attributes) == [attributes |-> attributes]

Trace(attributes, evs) == [attributes |-> attributes, events |-> evs]

\* Log::new
Log_new(version, features) ==
    [version |-> version, features |-> features, extensions |-> <<>>,
     attributes |-> EmptyMap, traces |-> <<>>, events |-> <<>>]

\* ------------------------------------------------------------------------
\* Parser
\* ------------------------------------------------------------------------
ATTRIBUTE_TAGS == {"list", "string", "datetime", "long", "double", "boolean", "id"}

\* parse_scalar with a fault: the datetime arm builds a String
parse_scalar_swapped(tag, value) ==
    CASE tag = "string"   -> Ok(AttrString(value))
      [] tag = "datetime" -> Ok(AttrString(value))
      [] tag = "long"     -> Then(parse_i64(value), LAMBDA v : Ok(AttrLong(v)))
      [] tag = "double"   -> Then(parse_f64(value), LAMBDA v : Ok(AttrDouble(v)))
      [] tag = "boolean"  -> Then(parse_bool(value), LAMBDA v : Ok(AttrBoolean(v)))
      [] tag = "id"       -> Ok(AttrID(value))
      [] OTHER            -> Panic("panic!()")

\* the match on the tag name of a node that carries a value
parse_scalar(tag, value) ==
    CASE tag = "string"   -> Ok(AttrString(value))
      [] tag = "datetime" -> Ok(AttrDateTime(value))
      [] tag = "long"     -> Then(parse_i64(value), LAMBDA v : Ok(AttrLong(v)))
      [] tag = "double"   -> Then(parse_f64(value), LAMBDA v : Ok(AttrDouble(v)))
      [] tag = "boolean"  -> Then(parse_bool(value), LAMBDA v : Ok(AttrBoolean(v)))
      [] tag = "id"       -> Ok(AttrID(value))
      [] OTHER            -> Panic("panic!()")

\* is_attribute_tag with a fault: the filter lets every element through
is_attribute_tag_any(node) == IsElement(node)

\* the filter of every attribute loop
is_attribute_tag(node) == node.tag \in ATTRIBUTE_TAGS

RECURSIVE parse_attribute(_)
RECURSIVE insert_attributes(_, _)

\* for e in children.filter(ATTRIBUTE_TAGS.contains(tag)) { map.insert(parse_attribute(e)) }
insert_attributes(children, map) ==
    IF children = <<>> THEN Ok(map)
    ELSE IF ~is_attribute_tag(Head(children))
         THEN insert_attributes(Tail(children), map)
    ELSE Then(parse_attribute(Head(children)),
              LAMBDA kv : insert_attributes(Tail(children), insert(map, kv[1], kv[2])))

parse_attribute(attributee) ==
    IF ~has_attribute(attributee, "key") THEN Panic("unwrap:key")
    ELSE IF has_attribute(attributee, "value")
         THEN Then(parse_scalar(attributee.tag, attributee.attrs["value"]),
                   LAMBDA v : Ok(<<attributee.attrs["key"], v>>))
    ELSE Then(insert_attributes(attributee.children, EmptyMap),
              LAMBDA sub_attributes :
                  Ok(<<attributee.attrs["key"], AttrList(sub_attributes)>>))

parse_event(evente) ==
    Then(insert_attributes(evente.children, EmptyMap),
         LAMBDA attributes : Ok(Event(attributes)))

RECURSIVE push_events(_, _)
\* for e in children.filter(tag == "event") { events.push(parse_event(e)) }
push_events(children, evs) ==
    IF children = <<>> THEN Ok(evs)
    ELSE IF Head(children).tag # "event" THEN push_events(Tail(children), evs)
    ELSE Then(parse_event(Head(children)),
              LAMBDA e : push_events(Tail(children), Append(evs, e)))

parse_trace(tracee) ==
    Then(insert_attributes(tracee.children, EmptyMap),
         LAMBDA attributes :
             Then(push_events(tracee.children, <<>>),
                  LAMBDA evs : Ok(Trace(attributes, evs))))

RECURSIVE push_traces(_, _)
\* for e in children.filter(tag == "trace") { traces.push(parse_trace(e)) }
push_traces(children, traces) ==
    IF children = <<>> THEN Ok(traces)
    ELSE IF Head(children).tag # "trace" THEN push_traces(Tail(children), traces)
    ELSE Then(parse_trace(Head(children)),
              LAMBDA t : push_traces(Tail(children), Append(traces, t)))

\* parse_extension with a fault: a missing uri is defaulted
\* (unwrap_or_default)
parse_extension_default(exte) ==
    IF ~has_attribute(exte, "name") THEN Panic("unwrap:name")
    ELSE IF ~has_attribute(exte, "prefix") THEN Panic("unwrap:prefix")
    ELSE Ok(Extension(exte.attrs["name"], exte.attrs["prefix"],
                      IF has_attribute(exte, "uri") THEN exte.attrs["uri"] ELSE ""))

\* the body of the extension loop
parse_extension(exte) ==
    IF ~has_attribute(exte, "name") THEN Panic("unwrap:name")
    ELSE IF ~has_attribute(exte, "prefix") THEN Panic("unwrap:prefix")
    ELSE IF ~has_attribute(exte, "uri") THEN Panic("unwrap:uri")
    ELSE Ok(Extension(exte.attrs["name"], exte.attrs["prefix"], exte.attrs["uri"]))

RECURSIVE push_extensions(_, _)
\* for e in children.filter(tag == "extension") { extensions.push(..) }
push_extensions(children, exts) ==
    IF children = <<>> THEN Ok(exts)
    ELSE IF Head(children).tag # "extension"
         THEN push_extensions(Tail(children), exts)
    ELSE Then(parse_extension(Head(children)),
              LAMBDA x : push_extensions(Tail(children), Append(exts, x)))

\* the four loops of parse_log over the children of the log element
fill_log(new, children) ==
    Then(push_extensions(children, new.extensions), LAMBDA x :
    Then(insert_attributes(children, new.attributes), LAMBDA a :
    Then(push_traces(children, new.traces), LAMBDA t :
    Then(push_events(children, new.events), LAMBDA e :
        Ok([new EXCEPT !.extensions = x, !.attributes = a,
                       !.traces = t, !.events = e])))))

parse_log(loge) ==
    IF ~has_attribute(loge, "version") THEN Panic("unwrap:version")
    ELSE IF ~has_attribute(loge, "features") THEN Panic("unwrap:features")
    ELSE fill_log(Log_new(loge.attrs["version"],
                          parse_features(loge.attrs["features"])),
                  loge.children)

\* roxmltree::Document::parse(..).unwrap(): the text of a document holds
\* exactly one element at its top level (XML 1.0, production [1]); comments
\* may stand beside it.  The result is the root node over those nodes.
Document_parse(top) ==
    IF Cardinality({i \in 1..Len(top) : IsElement(top[i])}) = 1
    THEN Ok(Node("", NoAttrs, top))
    ELSE Panic("roxmltree::Error")

RECURSIVE push_logs(_, _)
\* for log in document.root().children().filter(tag == "log") { logs.push(parse_log(log)) }
push_logs(children, logs) ==
    IF children = <<>> THEN Ok(logs)
    ELSE IF Head(children).tag # "log" THEN push_logs(Tail(children), logs)
    ELSE Then(parse_log(Head(children)),
              LAMBDA l : push_logs(Tail(children), Append(logs, l)))

\* read, from the text of the file on
read(top) ==
    Then(Document_parse(top), LAMBDA document : push_logs(document.children, <<>>))

\* ------------------------------------------------------------------------
\* Serializer: quick_xml events.  A BytesStart holds its name and the
\* attributes pushed so far, in order; push_attribute escapes the value.
\* ------------------------------------------------------------------------
\* quick_xml::escape::escape on the characters used here
escape_char(c) ==
    IF c = "&" THEN <<"&","a","m","p",";">>
    ELSE IF c = "<" THEN <<"&","l","t",";">>
    ELSE <<c>>

escape(value) == Flatten([i \in 1..Len(value) |-> escape_char(value[i])])

BytesStart_new(name) == [type |-> "Start", name |-> name, attrs |-> <<>>]

push_attribute(start, name, value) ==
    [start EXCEPT !.attrs = Append(@, <<name, value>>)]

BytesEnd_new(name) == [type |-> "End", name |-> name]

\* The iteration order of a HashMap is not specified: it is the order the
\* keys have in a permutation `order` of all keys, chosen when writing.
iter(map, order) == SelectSeq(order, LAMBDA k : k \in DOMAIN map)

write_extension(extension) ==
    LET exte == push_attribute(push_attribute(push_attribute(
                    BytesStart_new("extension"),
                    "name", extension.name), "prefix", extension.prefix),
                    "uri", extension.uri)
    IN  <<exte, BytesEnd_new("extension")>>

\* the first match of write_attribute
element_name(v) ==
    CASE v.kind = "List"     -> "list"
      [] v.kind = "String"   -> "string"
      [] v.kind = "Long"     -> "long"
      [] v.kind = "Double"   -> "double"
      [] v.kind = "DateTime" -> "date"
      [] v.kind = "Boolean"  -> "boolean"
      [] v.kind = "ID"       -> "id"

\* the text a scalar is rendered as in the second match of write_attribute
value_text(v) ==
    CASE v.kind = "Long"    -> i64_to_string(v.value)
      [] v.kind = "Double"  -> f64_to_string(v.value)
      [] v.kind = "Boolean" -> bool_to_string(v.value)
      [] OTHER              -> v.value

\* list_arm with a fault: the end event is not pushed
list_arm_unclosed(sub_events) == <<BytesStart_new("list")>> \o sub_events

\* the events the List arm pushes around those of the children
list_arm(sub_events) ==
    <<BytesStart_new("list")>> \o sub_events \o <<BytesEnd_new("list")>>

\* the two events pushed after the match
attribute_element(attribute_start, name) == <<attribute_start, BytesEnd_new(name)>>

RECURSIVE write_attribute(_, _, _)
write_attribute(k, v, order) ==
    LET name  == element_name(v)
        start == push_attribute(BytesStart_new(name), "key", k)
    IN  IF v.kind = "List"
        THEN LET keys == iter(v.value, order)
             IN  list_arm(Flatten([i \in 1..Len(keys) |->
                          write_attribute(keys[i], v.value[keys[i]], order)]))
                 \o attribute_element(start, name)
        ELSE attribute_element(
                 push_attribute(start, "value", escape(value_text(v))), name)

\* for attribute in &attributes { write_attribute(attribute, events) }
write_attributes(map, order) ==
    LET keys == iter(map, order)
    IN  Flatten([i \in 1..Len(keys) |-> write_attribute(keys[i], map[keys[i]], order)])

write_event(event, order) ==
    <<BytesStart_new("event")>> \o write_attributes(event.attributes, order)
        \o <<BytesEnd_new("event")>>

write_trace(trace, order) ==
    <<BytesStart_new("trace")>> \o write_attributes(trace.attributes, order)
        \o Flatten([i \in 1..Len(trace.events) |-> write_event(trace.events[i], order)])
        \o <<BytesEnd_new("trace")>>

write_log(l, order) ==
    LET loge == push_attribute(push_attribute(BytesStart_new("log"),
                    "version", l.version), "features", escape(join(l.features, ",")))
    IN  <<loge>>
        \o Flatten([i \in 1..Len(l.extensions) |-> write_extension(l.extensions[i])])
        \o write_attributes(l.attributes, order)
        \o Flatten([i \in 1..Len(l.traces) |-> write_trace(l.traces[i], order)])
        \o Flatten([i \in 1..Len(l.events) |-> write_event(l.events[i], order)])
        \o <<BytesEnd_new("log")>>

\* ------------------------------------------------------------------------
\* From the events back to a tree: Writer::write_event writes each event as
\* it is (<name a="v" ..> for a Start, </name> for an End) and the XML
\* parser reads that text, unescaping the attribute values.
\* ------------------------------------------------------------------------
RECURSIVE unescape(_)
unescape(s) ==
    IF s = <<>> THEN <<>>
    ELSE IF Len(s) >= 5 /\ SubSeq(s, 1, 5) = <<"&","a","m","p",";">>
         THEN <<"&">> \o unescape(SubSeq(s, 6, Len(s)))
    ELSE IF Len(s) >= 4 /\ SubSeq(s, 1, 4) = <<"&","l","t",";">>
         THEN <<"<">> \o unescape(SubSeq(s, 5, Len(s)))
    ELSE <<Head(s)>> \o unescape(Tail(s))

\* the attributes of a start tag as the parser holds them
read_attrs(pairs) ==
    [n \in {pairs[i][1] : i \in 1..Len(pairs)} |->
        LET v == (CHOOSE i \in 1..Len(pairs) : pairs[i][1] = n)
        IN  IF n \in {"value", "features"} THEN unescape(pairs[v][2])
            ELSE pairs[v][2]]

RECURSIVE parse_markup(_, _, _)
\* open: the elements begun and not yet ended, innermost last; top: the
\* finished nodes of the top level
parse_markup(evs, open, top) ==
    IF evs = <<>>
    THEN IF open = <<>> THEN Ok(top) ELSE Panic("roxmltree::Error")
    ELSE LET e == Head(evs) IN
         IF e.type = "Start"
         THEN parse_markup(Tail(evs),
                  Append(open, Node(e.name, read_attrs(e.attrs), <<>>)), top)
         ELSE IF open = <<>> \/ open[Len(open)].tag # e.name
              THEN Panic("roxmltree::Error")
         ELSE LET done == open[Len(open)]
                  rest == SubSeq(open, 1, Len(open) - 1)
              IN  IF rest = <<>>
                  THEN parse_markup(Tail(evs), rest, Append(top, done))
                  ELSE parse_markup(Tail(evs),
                           [rest EXCEPT ![Len(rest)].children = Append(@, done)],
                           top)

\* write(log, path) followed by read(path)
write_then_read(evs) == Then(parse_markup(evs, <<>>, <<>>), LAMBDA top : read(top))

\* ------------------------------------------------------------------------
\* Bounds and sample inputs
\* ------------------------------------------------------------------------
\* elements of a document given to read
MaxNodes == 5

\* elements of a tree given to parse_attribute
MaxAttrNodes == 3

\* extensions, attributes, traces and events of a Log built by a caller
MaxParts == 4

Keys == {"a", "b"}

\* the iteration orders of a map over Keys
Orders == {<<"a", "b">>, <<"b", "a">>}

K(k) == "key" :> k

KV(k, v) == "key" :> k @@ "value" :> v

El(tag, attrs) == [tag |-> tag, attrs |-> attrs]

TextX == <<"x">>

Text42 == <<"4", "2">>

\* attribute elements of the documents given to read
DocAttributes ==
    { El("string", KV("a", TextX)), El("long", KV("a", Text42)),
      El("string", "value" :> TextX), El("list", K("b")) }

FeaturesText == <<"f", ",", " ", "g">>

DocLogs ==
    { El("log", "version" :> "1.0" @@ "features" :> FeaturesText),
      El("log", "features" :> FeaturesText),
      El("log", "version" :> "1.0") }

DocExtensions ==
    { El("extension", "name" :> "n" @@ "prefix" :> "p" @@ "uri" :> "u"),
      El("extension", "prefix" :> "p" @@ "uri" :> "u"),
      El("extension", "name" :> "n" @@ "uri" :> "u"),
      El("extension", "name" :> "n" @@ "prefix" :> "p") }

FullLog == El("log", "version" :> "1.0" @@ "features" :> FeaturesText)

\* what may be opened inside `parent` in a document given to read: "#top" is
\* the start of the text and "#after" the text after its first element; a
\* comment has the empty tag.  Only the first element of the text, when it
\* is a log with version and features, is given content: read looks at
\* nothing below any other element.
DocChildren(parent) ==
    CASE parent = "#top"   -> DocLogs \cup {El("xes", NoAttrs)}
      [] parent = "#after" -> {FullLog, El("", NoAttrs)}
      [] parent = "xes"    -> DocLogs
      [] parent = "log"    ->
            DocExtensions \cup DocAttributes
                \cup {El("trace", NoAttrs), El("event", NoAttrs)}
      [] parent = "trace"  -> DocAttributes \cup {El("event", NoAttrs)}
      [] parent = "event"  -> DocAttributes
      [] parent = "list"   -> DocAttributes
      [] OTHER             -> {}

Init ==
    /\ pc = "text" /\ stack = <<>> /\ text = <<>> /\ used = 0
    /\ result = <<>> /\ log = <<>> /\ seed = <<>> /\ events = <<>>
    /\ reparsed = <<>> /\ attribute = <<>>

\* ------------------------------------------------------------------------
\* The text of the input, element by element
\* ------------------------------------------------------------------------
Parent ==
    IF stack = <<>> THEN (IF text = <<>> THEN "#top" ELSE "#after")
    ELSE LET n == stack[Len(stack)]
         IN  IF n.tag # "log" THEN n.tag
             ELSE IF Len(stack) = 1 /\ text = <<>> /\ El(n.tag, n.attrs) = FullLog
                  THEN "log" ELSE "#leaf"

\* a start tag of the input
Open(children, max) ==
    /\ pc = "text"
    /\ used < max
    /\ \E t \in children :
          stack' = Append(stack, Node(t.tag, t.attrs, <<>>))
    /\ used' = used + 1
    /\ UNCHANGED <<pc, text, result, log, seed, events, reparsed, attribute>>

\* an end tag of the input
Close ==
    /\ pc = "text"
    /\ stack # <<>>
    /\ LET done == stack[Len(stack)]
           rest == SubSeq(stack, 1, Len(stack) - 1)
       IN  IF rest = <<>>
           THEN stack' = rest /\ text' = Append(text, done)
           ELSE /\ stack' = [rest EXCEPT ![Len(rest)].children = Append(@, done)]
                /\ text' = text
    /\ UNCHANGED <<pc, used, result, log, seed, events, reparsed, attribute>>

OpenDoc == Open(DocChildren(Parent), MaxNodes)

\* ------------------------------------------------------------------------
\* read, then write of one of the logs read, then read of what was written
\* ------------------------------------------------------------------------
Read ==
    /\ pc = "text"
    /\ stack = <<>>
    /\ result' = read(text)
    /\ pc' = "read"
    /\ UNCHANGED <<stack, text, used, log, seed, events, reparsed, attribute>>

Write ==
    /\ pc = "read"
    /\ result.ok
    /\ \E i \in 1..Len(result.val), order \in Orders :
          /\ log' = result.val[i]
          /\ seed' = order
          /\ events' = write_log(result.val[i], order)
    /\ pc' = "written"
    /\ UNCHANGED <<stack, text, used, result, reparsed, attribute>>

Reread ==
    /\ pc = "written"
    /\ reparsed' = write_then_read(events)
    /\ pc' = "reread"
    /\ UNCHANGED <<stack, text, used, result, log, seed, events, attribute>>

\* ------------------------------------------------------------------------
\* Properties of read
\* ------------------------------------------------------------------------
\* the nesting depth at which the i-th event stands
Depth(evs, i) ==
    Cardinality({j \in 1..(i - 1) : evs[j].type = "Start"})
        - Cardinality({j \in 1..(i - 1) : evs[j].type = "End"})

RECURSIVE AllNodes(_)
\* every node of a sequence of trees
AllNodes(nodes) ==
    IF nodes = <<>> THEN {}
    ELSE {Head(nodes)} \cup AllNodes(Head(nodes).children) \cup AllNodes(Tail(nodes))

Tagged(children, tag) == SelectSeq(children, LAMBDA c : c.tag = tag)

\* the positions of the attribute-tagged children
AttributeChildren(children) ==
    {i \in 1..Len(children) : children[i].tag \in ATTRIBUTE_TAGS}

\* map holds, for each key of the attribute-tagged children, what the last
\* child with that key parses to, and nothing else
LastWins(children, map) ==
    LET A == AttributeChildren(children)
        key(i) == children[i].attrs["key"]
    IN  /\ DOMAIN map = {key(i) : i \in A}
        /\ Cardinality(DOMAIN map) = Cardinality({key(i) : i \in A})
        /\ \A i \in A :
              (\A j \in A : j > i => key(j) # key(i))
                  => map[key(i)] = parse_attribute(children[i]).val[2]

\* C5: duplicate keys are last-write-wins.  Whenever a log, trace, event or
\* list element parses, its mapping has one entry per distinct key of its
\* attribute-tagged children, holding the value of the last child with
\* that key.
C5_LastWriteWins ==
    pc = "read" =>
        /\ result.ok =>
              \A i \in 1..Len(result.val) :
                  LET loge == Tagged(text, "log")[i]
                      l    == result.val[i]
                  IN  /\ LastWins(loge.children, l.attributes)
                      /\ \A j \in 1..Len(l.traces) :
                            LET tracee == Tagged(loge.children, "trace")[j]
                            IN  /\ LastWins(tracee.children, l.traces[j].attributes)
                                /\ \A k \in 1..Len(l.traces[j].events) :
                                      LastWins(Tagged(tracee.children, "event")[k].children,
                                               l.traces[j].events[k].attributes)
                      /\ \A k \in 1..Len(l.events) :
                            LastWins(Tagged(loge.children, "event")[k].children,
                                     l.events[k].attributes)
        /\ \A n \in AllNodes(text) :
              LET r == parse_attribute(n)
              IN  (n.tag \in ATTRIBUTE_TAGS /\ ~has_attribute(n, "value") /\ r.ok)
                      => LastWins(n.children, r.val[2].value)

DuplicateKey(n) ==
    /\ Len(n.children) = 2
    /\ AttributeChildren(n.children) = {1, 2}
    /\ n.children[1].attrs = KV("a", TextX)
    /\ n.children[2].attrs = KV("a", Text42)

\* a log, a trace, an event and a list with two children under one key
\* have been read
C5_Witness ==
    /\ pc = "read" /\ result.ok /\ Len(result.val) = 1
    /\ \/ DuplicateKey(text[1]) /\ DOMAIN result.val[1].attributes = {"a"}
       \/ /\ Len(text[1].children) = 1
          /\ DuplicateKey(text[1].children[1])
          /\ \/ Len(result.val[1].traces) = 1
             \/ Len(result.val[1].events) = 1
             \/ /\ "b" \in DOMAIN result.val[1].attributes
                /\ result.val[1].attributes["b"].value = ("a" :> AttrLong(I64(FALSE, Text42)))

RECURSIVE MissingKey(_)
\* an attribute-tagged element among these children, or below one of them
\* that is read as a list, has no key
MissingKey(children) ==
    \E i \in AttributeChildren(children) :
        \/ ~has_attribute(children[i], "key")
        \/ /\ ~has_attribute(children[i], "value")
           /\ MissingKey(children[i].children)

MissingMandatory(loge) ==
    \/ ~has_attribute(loge, "version")
    \/ ~has_attribute(loge, "features")
    \/ \E x \in SeqToSet(Tagged(loge.children, "extension")) :
          ~({"name", "prefix", "uri"} \subseteq DOMAIN x.attrs)
    \/ MissingKey(loge.children)
    \/ \E t \in SeqToSet(Tagged(loge.children, "trace")) :
          \/ MissingKey(t.children)
          \/ \E e \in SeqToSet(Tagged(t.children, "event")) : MissingKey(e.children)
    \/ \E e \in SeqToSet(Tagged(loge.children, "event")) : MissingKey(e.children)

\* C6: a missing mandatory attribute is fatal.  If a log element of the
\* document lacks version or features, an extension of it lacks name, prefix
\* or uri, or an attribute element the parser reaches lacks key, read
\* panics and returns no Log at all.
C6_MissingMandatoryIsFatal ==
    (pc = "read" /\ \E l \in SeqToSet(Tagged(text, "log")) : MissingMandatory(l))
        => ~result.ok

\* read has panicked on a key missing in a list of an event of a trace
C6_Witness ==
    /\ pc = "read"
    /\ result = Panic("unwrap:key")
    /\ Len(text) = 1
    /\ \E t \in SeqToSet(Tagged(text[1].children, "trace")) :
          \E e \in SeqToSet(Tagged(t.children, "event")) :
              \E a \in SeqToSet(e.children) :
                  /\ a.tag = "list" /\ has_attribute(a, "key")
                  /\ MissingKey(a.children)

\* every log element of these nodes carries version and features
LogsComplete(nodes) ==
    \A l \in SeqToSet(Tagged(nodes, "log")) :
        {"version", "features"} \subseteq DOMAIN l.attrs

\* a sequence of sibling nodes of the document with exactly two log elements
TwoSiblingLogs(nodes) == Len(Tagged(nodes, "log")) = 2 /\ LogsComplete(nodes)

\* read returns one Log per log child of the document root, in order, each
\* parse_log of that child alone; none when the root has no log child
C7_PerRootLog ==
    (pc = "read" /\ Document_parse(text).ok
        /\ \A l \in SeqToSet(Tagged(text, "log")) : parse_log(l).ok) =>
        /\ result.ok
        /\ Len(result.val) = Len(Tagged(text, "log"))
        /\ \A i \in 1..Len(result.val) :
              result.val[i] = parse_log(Tagged(text, "log")[i]).val

\* a document with two sibling log elements yields exactly two Logs
C7_TwoSiblings ==
    (pc = "read"
        /\ (TwoSiblingLogs(text) \/ \E n \in SeqToSet(text) : TwoSiblingLogs(n.children)))
        => result.ok /\ Len(result.val) = 2

\* C7: read returns one Log per log element of the document, in order: none
\* for a document without log elements, and two for a document with two
\* sibling log elements.
C7_OneLogPerLogElement == C7_PerRootLog /\ C7_TwoSiblings

\* read returns extensions, traces and events in the document order of the
\* children with that tag, whatever stands between them
C4_ReadKeepsOrder ==
    (pc = "read" /\ result.ok) =>
        \A i \in 1..Len(result.val) :
            LET loge == Tagged(text, "log")[i]
                l    == result.val[i]
                x    == Tagged(loge.children, "extension")
                t    == Tagged(loge.children, "trace")
                e    == Tagged(loge.children, "event")
            IN  /\ l.extensions = [j \in 1..Len(x) |-> parse_extension(x[j]).val]
                /\ l.traces = [j \in 1..Len(t) |-> parse_trace(t[j]).val]
                /\ l.events = [j \in 1..Len(e) |-> parse_event(e[j]).val]
                /\ \A j \in 1..Len(t) :
                      l.traces[j].events =
                          [k \in 1..Len(Tagged(t[j].children, "event")) |->
                              parse_event(Tagged(t[j].children, "event")[k]).val]

\* the element events of these tags at the top level of a parent's content
\* (parent start and end events excluded), in order
ChildStarts(evs, tags) ==
    SelectSeq([i \in 1..Len(evs) |-> IF Depth(evs, i) = 1 THEN evs[i] ELSE BytesEnd_new("")],
              LAMBDA e : e.type = "Start" /\ e.name \in tags)

\* write_log emits the traces and the events of the log in stored order
C4_WriteKeepsOrder ==
    pc \in {"written", "reread"} =>
        /\ Len(ChildStarts(events, {"trace"})) = Len(log.traces)
        /\ Len(ChildStarts(events, {"event"})) = Len(log.events)
        /\ Len(ChildStarts(events, {"extension"})) = Len(log.extensions)
        /\ events =
              <<events[1]>>
              \o Flatten([i \in 1..Len(log.extensions) |-> write_extension(log.extensions[i])])
              \o write_attributes(log.attributes, seed)
              \o Flatten([i \in 1..Len(log.traces) |-> write_trace(log.traces[i], seed)])
              \o Flatten([i \in 1..Len(log.events) |-> write_event(log.events[i], seed)])
              \o <<events[Len(events)]>>

\* the i-th event of a trace is the i-th event of that trace after write and
\* a second read
C4_RereadKeepsEvents ==
    pc = "reread" =>
        \A j \in 1..Len(log.traces) :
            \A k \in 1..Len(log.traces[j].events) :
                /\ reparsed.ok
                /\ Len(reparsed.val) = 1
                /\ Len(reparsed.val[1].traces) = Len(log.traces)
                /\ Len(reparsed.val[1].traces[j].events) = Len(log.traces[j].events)
                /\ reparsed.val[1].traces[j].events[k] = log.traces[j].events[k]

\* C4: order preservation.  read returns extensions, traces and events in
\* the document order of the children with that tag, write emits them in
\* stored order, and the i-th event of a trace is still the i-th event
\* after write and a second read.
C4_OrderPreserved == C4_ReadKeepsOrder /\ C4_WriteKeepsOrder /\ C4_RereadKeepsEvents

\* ------------------------------------------------------------------------
\* parse_attribute on one attribute element, then write_attribute of what
\* it gave
\* ------------------------------------------------------------------------
TextTrue == <<"t", "r", "u", "e">>

TextFloat == <<"1", ".", "5">>

\* elements carrying a value
AttrScalars ==
    { El("string", KV("a", TextX)), El("datetime", KV("b", TextX)),
      El("long", KV("a", Text42)), El("long", KV("a", TextX)),
      El("double", KV("b", TextFloat)), El("double", KV("b", TextX)),
      El("boolean", KV("a", TextTrue)), El("boolean", KV("a", TextX)),
      El("id", KV("b", TextX)), El("list", KV("a", TextX)),
      El("string", "value" :> TextX) }

\* elements without a value
AttrContainers ==
    { El("list", K("a")), El("list", K("b")), El("string", K("b")),
      El("list", NoAttrs), El("date", K("a")) }

\* parse_attribute is called on elements that passed the tag filter
AttrChildren ==
    IF stack = <<>>
    THEN IF text = <<>>
         THEN {t \in AttrScalars \cup AttrContainers : t.tag \in ATTRIBUTE_TAGS}
         ELSE {}
    ELSE IF \/ ~has_attribute(stack[Len(stack)], "value")
            \/ stack[Len(stack)].tag = "string"
         THEN AttrScalars \cup AttrContainers
         ELSE {}

OpenAttr == Open(AttrChildren, MaxAttrNodes)

ParseAttribute ==
    /\ pc = "text"
    /\ stack = <<>>
    /\ Len(text) = 1
    /\ attribute' = parse_attribute(text[1])
    /\ pc' = "parsed"
    /\ UNCHANGED <<stack, text, used, result, log, seed, events, reparsed>>

WriteAttribute ==
    /\ pc = "parsed"
    /\ attribute.ok
    /\ \E order \in Orders :
          /\ seed' = order
          /\ events' = write_attribute(attribute.val[1], attribute.val[2], order)
    /\ pc' = "written"
    /\ UNCHANGED <<stack, text, used, result, log, reparsed, attribute>>

\* the tags of the six scalar variants
ScalarKind ==
    "string" :> "String" @@ "datetime" :> "DateTime" @@ "long" :> "Long" @@
    "double" :> "Double" @@ "boolean" :> "Boolean" @@ "id" :> "ID"

\* r is what the tag of n asks for: the variant of the tag over the value
\* parsed from the text, or the failure of the scalar's own grammar
Dispatched(n, r) ==
    LET key   == n.attrs["key"]
        value == n.attrs["value"]
        i     == parse_i64(value)
        d     == parse_f64(value)
        b     == parse_bool(value)
    IN  /\ n.tag = "string" => r = Ok(<<key, [kind |-> "String", value |-> value]>>)
        /\ n.tag = "datetime" => r = Ok(<<key, [kind |-> "DateTime", value |-> value]>>)
        /\ n.tag = "id" => r = Ok(<<key, [kind |-> "ID", value |-> value]>>)
        /\ n.tag = "long" =>
              r = IF i.ok THEN Ok(<<key, [kind |-> "Long", value |-> i.val]>>) ELSE i
        /\ n.tag = "double" =>
              r = IF d.ok THEN Ok(<<key, [kind |-> "Double", value |-> d.val]>>) ELSE d
        /\ n.tag = "boolean" =>
              r = IF b.ok THEN Ok(<<key, [kind |-> "Boolean", value |-> b.val]>>) ELSE b
        /\ (n.tag = "long" /\ value = Text42) => r.ok /\ r.val[2].value = I64(FALSE, Text42)
        /\ (n.tag = "boolean" /\ value = TextTrue) => r.ok /\ r.val[2].value = TRUE
        /\ (n.tag \in {"long", "boolean", "double"} /\ value = TextX)
              => ~r.ok /\ r.panic # "panic!()"

HasKeyAndValue(n) == has_attribute(n, "key") /\ has_attribute(n, "value")

\* C8 as amended: for a node with key and value the result is the scalar
\* variant of the node's tag over the parsed value, a lexically invalid
\* long, double or boolean is fatal, and the unrecognized-tag failure is
\* raised exactly for a tag outside the six scalar tags: of the nodes
\* parse_attribute is called on, for a list element that carries a value.
C8_ScalarDispatch ==
    (pc = "parsed" /\ HasKeyAndValue(text[1])) =>
        /\ Dispatched(text[1], attribute)
        /\ attribute = Panic("panic!()") <=> text[1].tag \notin DOMAIN ScalarKind
        /\ attribute = Panic("panic!()") <=> text[1].tag = "list"

\* a list element with a value has been given to parse_attribute
C8_Witness ==
    /\ pc = "parsed"
    /\ El(text[1].tag, text[1].attrs) = El("list", KV("a", TextX))
    /\ attribute = Panic("panic!()")

\* C8 as claimed: ... and no node whose tag is in the recognized set
\* {list, string, datetime, long, double, boolean, id} fails with the
\* unrecognized-tag error.
C8_Original ==
    (pc = "parsed" /\ HasKeyAndValue(text[1])) =>
        /\ Dispatched(text[1], attribute)
        /\ attribute = Panic("panic!()") => text[1].tag \notin ATTRIBUTE_TAGS

\* C9: a node with key and without value parses to a List, whatever its
\* tag, that holds exactly what its attribute-tagged children parse to (or
\* fails as the first of them that fails); children with another tag change
\* nothing; this holds at every depth, and every scalar leaf has the
\* variant of its own tag.
C9_ListParsing ==
    pc = "parsed" =>
        /\ \A n \in AllNodes(text) :
              (n.tag \in ATTRIBUTE_TAGS /\ has_attribute(n, "key")
                  /\ ~has_attribute(n, "value")) =>
                  LET r    == IF n = text[1] THEN attribute ELSE parse_attribute(n)
                      A    == AttributeChildren(n.children)
                      bad  == {i \in A : ~parse_attribute(n.children[i]).ok}
                      kept == SelectSeq(n.children, LAMBDA c : c.tag \in ATTRIBUTE_TAGS)
                  IN  /\ IF bad = {}
                         THEN /\ r.ok
                              /\ r.val[1] = n.attrs["key"]
                              /\ r.val[2].kind = "List"
                              /\ LastWins(n.children, r.val[2].value)
                         ELSE r = parse_attribute(
                                      n.children[CHOOSE i \in bad : \A j \in bad : i <= j])
                      /\ r = parse_attribute([n EXCEPT !.children = kept])
        /\ \A n \in AllNodes(text) :
              (n.tag \in ATTRIBUTE_TAGS /\ HasKeyAndValue(n) /\ parse_attribute(n).ok)
                  => parse_attribute(n).val[2].kind = ScalarKind[n.tag]

\* a list in a list with a long inside has been parsed
C9_Witness ==
    /\ pc = "parsed"
    /\ text[1].tag = "list"
    /\ Len(text[1].children) = 1
    /\ text[1].children[1].tag = "list"
    /\ attribute =
          Ok(<<"a", AttrList("b" :> AttrList("a" :> AttrLong(I64(FALSE, Text42))))>>)

\* C2: write_attribute of (key, List(children)) emits exactly one list
\* element: its start event carries the key, the events of the children lie
\* between that start and its end, and no other list element is opened at
\* that level.
C2_OneListElement ==
    (pc = "written" /\ attribute.val[2].kind = "List") =>
        /\ events[1] = push_attribute(BytesStart_new("list"), "key", attribute.val[1])
        /\ events[Len(events)] = BytesEnd_new("list")
        /\ {i \in 1..Len(events) : events[i].type = "Start" /\ Depth(events, i) = 0} = {1}

NextAttr == OpenAttr \/ Close \/ ParseAttribute \/ WriteAttribute

SpecAttr == Init /\ [][NextAttr]_vars

\* ------------------------------------------------------------------------
\* A Log built by a caller (Log::new, then the public fields), written and
\* read back
\* ------------------------------------------------------------------------
TextAmp == <<"a", "&", "b">>

FeatureChoices == {<<>>, <<<<"f">>>>, <<<<"f">>, <<"g">>>>}

\* the attribute values a caller inserts, by key; a List starts empty
Values(k) ==
    IF k = "a"
    THEN {AttrString(TextAmp), AttrLong(I64(TRUE, Text42)), AttrDateTime(TextX),
          AttrList(EmptyMap)}
    ELSE {AttrBoolean(TRUE), AttrDouble(F64(FALSE, <<"1">>, <<"5">>)), AttrID(TextX),
          AttrList(EmptyMap)}

RECURSIVE ListPaths(_)
\* the key paths from a map to itself and to the Lists nested in it
ListPaths(map) ==
    {<<>>} \cup UNION {{<<k>> \o p : p \in ListPaths(map[k].value)} :
                          k \in {x \in DOMAIN map : map[x].kind = "List"}}

RECURSIVE MapAt(_, _)
MapAt(map, path) ==
    IF path = <<>> THEN map ELSE MapAt(map[Head(path)].value, Tail(path))

RECURSIVE InsertAt(_, _, _, _)
\* insert(k, v) on the map that path leads to
InsertAt(map, path, k, v) ==
    IF path = <<>> THEN insert(map, k, v)
    ELSE [map EXCEPT ![Head(path)].value = InsertAt(@, Tail(path), k, v)]

InitBuild ==
    /\ pc = "new" /\ stack = <<>> /\ text = <<>> /\ used = 0
    /\ result = <<>> /\ log = <<>> /\ seed = <<>> /\ events = <<>>
    /\ reparsed = <<>> /\ attribute = <<>>

New ==
    /\ pc = "new"
    /\ \E features \in FeatureChoices : log' = Log_new("1.0", features)
    /\ pc' = "build"
    /\ UNCHANGED <<stack, text, used, result, seed, events, reparsed, attribute>>

\* one more part of the Log, within the bound
Build(l) ==
    /\ pc = "build"
    /\ used < MaxParts
    /\ log' = l
    /\ used' = used + 1
    /\ UNCHANGED <<pc, stack, text, result, seed, events, reparsed, attribute>>

PushExtension == Build([log EXCEPT !.extensions = Append(@, Extension("n", "p", "u"))])

PushTrace == Build([log EXCEPT !.traces = Append(@, Trace(EmptyMap, <<>>))])

PushEvent ==
    \/ Build([log EXCEPT !.events = Append(@, Event(EmptyMap))])
    \/ /\ pc = "build"
       /\ log.traces # <<>>
       /\ Build([log EXCEPT !.traces[Len(log.traces)].events = Append(@, Event(EmptyMap))])

\* attributes.insert(k, v) on the log, its last trace, the last event of
\* that trace or its last event, or on a List inside their attributes
InsertAttribute ==
    /\ pc = "build"
    /\ \E k \in Keys :
        \E v \in Values(k) :
            \/ \E p \in ListPaths(log.attributes) :
                  /\ k \notin DOMAIN MapAt(log.attributes, p)
                  /\ Build([log EXCEPT !.attributes = InsertAt(@, p, k, v)])
            \/ /\ log.traces # <<>>
               /\ LET t == Len(log.traces) IN
                  \/ \E p \in ListPaths(log.traces[t].attributes) :
                        /\ k \notin DOMAIN MapAt(log.traces[t].attributes, p)
                        /\ Build([log EXCEPT !.traces[t].attributes = InsertAt(@, p, k, v)])
                  \/ /\ log.traces[t].events # <<>>
                     /\ LET e == Len(log.traces[t].events) IN
                        \E p \in ListPaths(log.traces[t].events[e].attributes) :
                            /\ k \notin DOMAIN MapAt(log.traces[t].events[e].attributes, p)
                            /\ Build([log EXCEPT !.traces[t].events[e].attributes =
                                                     InsertAt(@, p, k, v)])
            \/ /\ log.events # <<>>
               /\ LET e == Len(log.events) IN
                  \E p \in ListPaths(log.events[e].attributes) :
                      /\ k \notin DOMAIN MapAt(log.events[e].attributes, p)
                      /\ Build([log EXCEPT !.events[e].attributes = InsertAt(@, p, k, v)])

\* write, up to the events handed to the writer
WriteLog ==
    /\ pc = "build"
    /\ \E order \in Orders :
          /\ seed' = order
          /\ events' = write_log(log, order)
    /\ pc' = "written"
    /\ UNCHANGED <<stack, text, used, result, log, reparsed, attribute>>

NextBuild ==
    New \/ PushExtension \/ PushTrace \/ PushEvent \/ InsertAttribute \/ WriteLog \/ Reread

SpecBuild == InitBuild /\ [][NextBuild]_vars

\* ------------------------------------------------------------------------
\* Properties of write_log
\* ------------------------------------------------------------------------
RECURSIVE WellNested(_, _)
\* every End event names the innermost element still open, and none stays open
WellNested(evs, open) ==
    IF evs = <<>> THEN open = <<>>
    ELSE IF Head(evs).type = "Start"
         THEN WellNested(Tail(evs), Append(open, Head(evs).name))
    ELSE /\ Head(evs).type = "End"
         /\ open # <<>>
         /\ open[Len(open)] = Head(evs).name
         /\ WellNested(Tail(evs), SubSeq(open, 1, Len(open) - 1))

\* C3: the events of write_log are balanced and well nested: only Start and
\* End events, no prefix with more End than Start events, each End naming
\* the most recent unmatched Start, and the whole one log element opened by
\* the first event and closed by the last.
C3_Balanced ==
    pc = "written" =>
        /\ \A i \in 1..Len(events) : events[i].type \in {"Start", "End"}
        /\ \A i \in 1..Len(events) : Depth(events, i + 1) >= 0
        /\ WellNested(events, <<>>)
        /\ events[1].type = "Start" /\ events[1].name = "log"
        /\ events[Len(events)] = BytesEnd_new("log")
        /\ \A i \in 2..Len(events) : Depth(events, i) >= 1

\* a log with a DateTime in a List in a List has been written
C3_Witness ==
    /\ pc = "written"
    /\ log.attributes = ("a" :> AttrList("b" :> AttrList("a" :> AttrDateTime(TextX))))
    /\ Len(events) = 12

RECURSIVE Supported(_)
\* only String, Long, Boolean, ID and List attributes, at every depth
Supported(map) ==
    \A k \in DOMAIN map :
        /\ map[k].kind \in {"String", "Long", "Boolean", "ID", "List"}
        /\ map[k].kind = "List" => Supported(map[k].value)

SupportedLog(l) ==
    /\ Supported(l.attributes)
    /\ \A e \in SeqToSet(l.events) : Supported(e.attributes)
    /\ \A t \in SeqToSet(l.traces) :
          /\ Supported(t.attributes)
          /\ \A e \in SeqToSet(t.events) : Supported(e.attributes)

\* C1: round trip.  For a Log of String, Long, Boolean, ID and List
\* attributes, reading what write_log emits succeeds and gives a Log equal
\* to it in version, features, extensions, attributes, traces and events.
C1_RoundTrip ==
    (pc = "reread" /\ SupportedLog(log)) => reparsed = Ok(<<log>>)

\* no comma and no leading or trailing whitespace in any token
PlainTokens(features) ==
    \A i \in 1..Len(features) :
        /\ \A j \in 1..Len(features[i]) : features[i][j] # ","
        /\ trim(features[i]) = features[i]

\* C10: features round trip.  For every features sequence of plain tokens,
\* the empty one included, write_log puts the tokens joined with "," into
\* the one features attribute of the log start tag, and parse_log's split
\* and trim of that attribute give the sequence back.
C10_FeaturesRoundTrip ==
    (pc = "written" /\ PlainTokens(log.features)) =>
        /\ {i \in 1..Len(events[1].attrs) : events[1].attrs[i][1] = "features"} = {2}
        /\ events[1].attrs[2][2] = escape(join(log.features, ","))
        /\ parse_features(read_attrs(events[1].attrs)["features"]) = log.features

Next == OpenDoc \/ Close \/ Read \/ Write \/ Reread

Spec == Init /\ [][Next]_vars
====
